---- MODULE Spec2Model ----
(***************************************************************************)
(* ClassTrack attendance service (backend/server.py): the three document   *)
(* store collections and the request handlers that read and write them.    *)
(*                                                                         *)
(* Strings that the code only compares for equality (names, status)        *)
(* are TLA+ strings.  Date strings are compared by the store with $gte and *)
(* $lte, so they are sequences of character codes and the comparison is    *)
(* the lexicographic one.  An id is a natural number standing for the uuid  *)
(* string that uuid4() returned; uuid4() is a fresh-name generator.        *)
(***************************************************************************)
EXTENDS Integers, Sequences, FiniteSets, TLC

VARIABLES classes, students, attendance, now, last, tasks

vars == <<classes, students, attendance, now, last, tasks>>

\* ------------------------------------------------------------------ bounds
\* Most attendance documents the model lets the collection hold.
MaxAtt == 2
\* Longest attendance_records list of a bulk request.
MaxBulk == 2
\* Last instant of the model's clock.
MaxClock == 1
\* Most classes and most students the model creates.
MaxClasses == 2
MaxStudents == 2

\* ------------------------------------------------------------- Python bits
\* Python's None where a document is expected (find_one found nothing).
None == [none |-> TRUE]
\* Python's None where a string is expected (a query parameter that is not
\* supplied): no string holds the character code -1.
NoArg == <<-1>>
\* Python's None where an id is expected, and the id that is the empty string.
NoId == -1
EmptyId == 0
\* `if class_id:`: None and the empty string are falsy.
IdTruthy(id) == id # NoId /\ id # EmptyId

\* ------------------------------------------------------------------ dates
\* A datetime.date is <<year, month, day>>.
\* The decimal digits of n, zero-padded to width w, as character codes.
RECURSIVE Digits(_, _)
Digits(n, w) ==
    IF w = 0 THEN <<>> ELSE Append(Digits(n \div 10, w - 1), 48 + (n % 10))

\* date.isoformat(): "YYYY-MM-DD" (45 is "-").
isoformat(d) == Digits(d[1], 4) \o <<45>> \o Digits(d[2], 2) \o <<45>> \o Digits(d[3], 2)

\* ------------------------------------------------------- the document store
\* A find_one that finds nothing.
find_one_never(att, student_id, class_id, date) == {None}

\* db.attendance.find_one({student_id, class_id, date}): a matching document,
\* or None.  Which of several matching documents is returned is the store's
\* choice (natural order), so the result is the set of possible answers.
find_one(att, student_id, class_id, date) ==
    LET m == {r \in att : /\ r.student_id = student_id
                          /\ r.class_id = class_id
                          /\ r.date = date}
    IN  IF m = {} THEN {None} ELSE m

\* `if existing:` (a document is a non-empty dict, None is falsy).
Truthy(doc) == "none" \notin DOMAIN doc

\* An update_one that removes the document it matches.
update_one_delete(att, id, status, marked_at) == {{r \in att : r.id # id}}

\* An update_one whose filter matches no document.
update_one_none(att, id, status, marked_at) == {att}

\* An update_one whose filter matches every document.
update_one_all(att, id, status, marked_at) ==
    {{[r EXCEPT !.status = status, !.marked_at = marked_at] : r \in att}}

\* db.attendance.update_one({"id": id}, {"$set": {status, marked_at}}): one
\* document with that id gets the two fields; the others are left alone.
update_one(att, id, status, marked_at) ==
    LET m == {r \in att : r.id = id}
    IN  IF m = {} THEN {att}
        ELSE {(att \ {r}) \cup {[r EXCEPT !.status = status, !.marked_at = marked_at]} : r \in m}

\* A generator that returns the same id every time.
uuid4_fixed(used) == 1

\* uuid4(): an id that none of the documents of the collection holds.
uuid4(used) == CHOOSE n \in 1..(Cardinality(used) + 1) : n \notin used

AttIds(att) == {r.id : r \in att}

\* ------------------------------------------------------------ mark_attendance
\* The update branch: `existing` was found.  t2 is the second utcnow() reading.
mark_update(att, existing, data, t1, t2) ==
    {[att |-> a, existing |-> existing,
      ret |-> [existing EXCEPT !.status = data.status, !.marked_at = t2]]
        : a \in update_one(att, existing.id, data.status, t1)}

\* The insert branch: AttendanceRecord(**attendance_dict) draws the id and
\* reads the clock (t1); the stored document's marked_at is a second reading.
mark_insert(att, data, id, t1, t2) ==
    LET attendance_obj == [id |-> id, student_id |-> data.student_id,
                           class_id |-> data.class_id, date |-> isoformat(data.date),
                           status |-> data.status, marked_at |-> t1]
        attendance_doc == [attendance_obj EXCEPT !.date = isoformat(data.date),
                                                 !.marked_at = t2]
    IN  {[att |-> att \cup {attendance_doc}, existing |-> None, ret |-> attendance_obj]}

\* The whole handler, run with no other request in between: the possible
\* (collection, response) outcomes.
mark_attendance(att, data, t1, t2) ==
    UNION {IF Truthy(existing)
           THEN mark_update(att, existing, data, t1, t2)
           ELSE mark_insert(att, data, uuid4(AttIds(att)), t1, t2)
             : existing \in find_one(att, data.student_id, data.class_id,
                                     isoformat(data.date))}

\* ------------------------------------------------------- mark_bulk_attendance
\* The for loop from its i-th record on.  record["student_id"] and
\* record["status"] raise KeyError on a dict without the key: the handler ends
\* in a 500 and what the earlier iterations wrote stays.
RECURSIVE bulk_loop(_, _, _, _, _)
bulk_loop(att, bulk_data, i, results, t) ==
    IF i > Len(bulk_data.attendance_records)
    THEN {[att |-> att, code |-> 200, records |-> results]}
    ELSE LET record == bulk_data.attendance_records[i]
         IN  IF "student_id" \notin DOMAIN record \/ "status" \notin DOMAIN record
             THEN {[att |-> att, code |-> 500, records |-> results]}
             ELSE LET attendance_data ==
                          [student_id |-> record.student_id,
                           class_id |-> bulk_data.class_id,
                           date |-> bulk_data.date,
                           status |-> record.status]
                  IN  UNION {bulk_loop(o.att, bulk_data, i + 1, Append(results, o.ret), t)
                               : o \in mark_attendance(att, attendance_data, t, t)}

\* A loop that undoes its writes when a record fails.
bulk_rollback(att, bulk_data, t) ==
    {IF o.code = 200 THEN o ELSE [o EXCEPT !.att = att]
       : o \in bulk_loop(att, bulk_data, 1, <<>>, t)}

\* A loop that starts at the second record.
bulk_skip_first(att, bulk_data, t) == bulk_loop(att, bulk_data, 2, <<>>, t)

\* POST /attendance/bulk: the loop over all of attendance_records.
mark_bulk_attendance(att, bulk_data, t) == bulk_loop(att, bulk_data, 1, <<>>, t)

\* ------------------------------------------------------------------ strings
\* a <= b for two strings as the store's $gte and $lte compare them: by the
\* first character that differs, a proper prefix first.
RECURSIVE StrLeqFrom(_, _, _)
StrLeqFrom(a, b, i) ==
    IF i > Len(a) THEN TRUE
    ELSE IF i > Len(b) THEN FALSE
    ELSE IF a[i] # b[i] THEN a[i] < b[i]
    ELSE StrLeqFrom(a, b, i + 1)

StrLeq(a, b) == StrLeqFrom(a, b, 1)

\* `if start_date:`, `if end_date:`: None and the empty string are falsy.
StrTruthy(s) == s # NoArg /\ s # <<>>

\* ------------------------------------------------------------ get_class_report
\* Cursor.to_list(1000) keeps at most this many documents.
ToListLimit == 1000

\* find(...).to_list(length): every matching document, or the first `length`
\* of them when more match.  A cursor without a sort returns documents in
\* natural order, which for a collection nothing is deleted from is the order
\* of insertion; uuid4 numbers the documents in that order.
to_list(matching, length) ==
    IF Cardinality(matching) <= length THEN {matching}
    ELSE {{r \in matching : Cardinality({q \in matching : q.id < r.id}) < length}}

\* db.students.find({"class_id": class_id})
ClassStudents(studs, class_id) == {s \in studs : s.class_id = class_id}

\* date_filter: the class, "$gte" start_date if start_date is truthy, "$lte"
\* end_date if end_date is truthy.
date_filter(r, class_id, start_date, end_date) ==
    /\ r.class_id = class_id
    /\ StrTruthy(start_date) => StrLeq(start_date, r.date)
    /\ StrTruthy(end_date) => StrLeq(r.date, end_date)

\* [record for record in attendance_records if record["student_id"] == student_id]
student_attendance(records, student_id) == {r \in records : r.student_id = student_id}

\* present_count / total_days is exactly representable as a float.
Dyadic(present, total) ==
    \E e \in 0..10 : (present * 2^e) % total = 0

\* A percentage cut off after the second decimal instead of rounded.
Percentage_floor(present, total, fp) ==
    IF total > 0 THEN (present * 10000) \div total ELSE 0

\* round(present_count / total_days * 100, 2) if total_days > 0 else 0, in
\* hundredths of a percent (6000 is 60.00).  round() goes to the nearest
\* hundredth, and from a value halfway between two to the even one; when the
\* quotient is not exact the float product of such a case lies just below or
\* just above the halfway point (fp says which).
Percentage(present, total, fp) ==
    IF total > 0
    THEN LET q == (present * 10000) \div total
             twice == 2 * ((present * 10000) % total)
         IN  IF twice < total THEN q
             ELSE IF twice > total THEN q + 1
             ELSE IF Dyadic(present, total) THEN (IF q % 2 = 0 THEN q ELSE q + 1)
             ELSE IF fp = "below" THEN q ELSE q + 1
    ELSE 0

\* The loop over students: student_stats, keyed by student["id"].
student_stats(studs, attendance_records, fp) ==
    [student_id \in {s.id : s \in studs} |->
        LET student == CHOOSE s \in studs : s.id = student_id
            sa == student_attendance(attendance_records, student_id)
            total_days == Cardinality(sa)
            present_count == Cardinality({r \in sa : r.status = "present"})
            absent_count == Cardinality({r \in sa : r.status = "absent"})
            late_count == Cardinality({r \in sa : r.status = "late"})
        IN  [student_name |-> student.name,
             roll_number |-> student.roll_number,
             total_days |-> total_days,
             present |-> present_count,
             absent |-> absent_count,
             late |-> late_count,
             attendance_percentage |-> Percentage(present_count, total_days, fp)]]

\* The report of an existing class: the possible response bodies.
class_report(cls, studs, att, class_id, start_date, end_date) ==
    {[code |-> 200,
      class_info |-> cls,
      report_period |-> [start_date |-> start_date, end_date |-> end_date],
      student_statistics |-> student_stats(found, attendance_records, fp)]
        : found \in to_list(ClassStudents(studs, class_id), ToListLimit),
          attendance_records \in
              to_list({r \in att : date_filter(r, class_id, start_date, end_date)},
                      ToListLimit),
          fp \in {"below", "above"}}

\* A report that does not look the class up.
get_class_report_no_check(clss, studs, att, class_id, start_date, end_date) ==
    class_report(None, studs, att, class_id, start_date, end_date)

\* GET /reports/{class_id}: 404 when find_one finds no class with that id.
get_class_report(clss, studs, att, class_id, start_date, end_date) ==
    LET found == {c \in clss : c.id = class_id}
    IN  IF found = {}
        THEN {[code |-> 404, detail |-> "Class not found"]}
        ELSE UNION {class_report(cls, studs, att, class_id, start_date, end_date)
                      : cls \in found}

\* ------------------------------------------------------------------ inputs
Date1 == <<2024, 1, 15>>
Date2 == <<2024, 2, 1>>

\* The (class_id, date) pairs and the students of the marking requests.
MarkDays == {<<1, Date1>>, <<2, Date1>>, <<1, Date2>>}
MarkStudents == {1, 2}
MarkStatuses == {"present", "absent"}

MarkInputs ==
    {[student_id |-> s, class_id |-> cd[1], date |-> cd[2], status |-> st]
       : s \in MarkStudents, cd \in MarkDays, st \in MarkStatuses}

\* The dicts of a bulk list: well-formed ones, one without "student_id", one
\* without "status".
BulkPairs ==
    {[student_id |-> s, status |-> st] : s \in MarkStudents, st \in MarkStatuses}
        \cup {[status |-> "present"], [student_id |-> 1]}

SeqsUpTo(S, n) == UNION {[1..k -> S] : k \in 0..n}

BulkInputs ==
    {[class_id |-> cd[1], date |-> cd[2], attendance_records |-> l]
       : cd \in MarkDays, l \in SeqsUpTo(BulkPairs, MaxBulk)}

\* ------------------------------------------------------------------ actions
\* The requests that may be in flight at once, and a request slot at rest.
Procs == {1, 2}
NoTask == [pc |-> "idle"]
NoTasks == [p \in Procs |-> NoTask]
\* `last` is the request that has just been handled: its operation and
\* arguments (req), the attendance collection the handler started from (pre),
\* the HTTP status (code) and the response body.  Idle: no response is on its
\* way to a client.
Idle == [op |-> "none"]

Init ==
    /\ classes = {}
    /\ students = {}
    /\ attendance = {}
    /\ now = 0
    /\ last = Idle
    /\ tasks = NoTasks

\* POST /attendance, start to finish.
MarkAttendance(data, t1, t2) ==
    /\ last = Idle
    /\ \E o \in mark_attendance(attendance, data, t1, t2) :
        /\ Cardinality(o.att) <= MaxAtt
        /\ attendance' = o.att
        /\ now' = t2
        /\ last' = [op |-> "mark_attendance", req |-> data, pre |-> attendance,
                    existing |-> o.existing, code |-> 200, ret |-> o.ret]
        /\ UNCHANGED <<classes, students, tasks>>

\* POST /attendance/bulk, start to finish.
MarkBulkAttendance(bulk_data, t) ==
    /\ last = Idle
    /\ \E o \in mark_bulk_attendance(attendance, bulk_data, t) :
        /\ Cardinality(o.att) <= MaxAtt
        /\ attendance' = o.att
        /\ now' = t
        /\ last' = [op |-> "mark_bulk_attendance", req |-> bulk_data, pre |-> attendance,
                    code |-> o.code, records |-> o.records]
        /\ UNCHANGED <<classes, students, tasks>>

\* The response reaches the client, which may then send its next request.
Reply ==
    /\ last # Idle
    /\ last' = Idle
    /\ UNCHANGED <<classes, students, attendance, now, tasks>>

\* Marks and bulk marks one after another, no two requests overlapping.
NextMark ==
    \/ Reply
    \/ \E data \in MarkInputs : MarkAttendance(data, now, now)
    \/ \E bulk_data \in BulkInputs : MarkBulkAttendance(bulk_data, now)

SpecMark == Init /\ [][NextMark]_vars

\* ---------------------------------------------------- overlapping requests
\* mark_attendance suspends at each await: the store runs find_one, and later
\* update_one or insert_one, and other requests run in between.
\* Request p arrives and its find_one is answered.
MarkFind(p, data) ==
    /\ tasks[p].pc = "idle"
    /\ \E existing \in find_one(attendance, data.student_id, data.class_id,
                                isoformat(data.date)) :
          tasks' = [tasks EXCEPT ![p] = [pc |-> "found", req |-> data,
                                         pre |-> attendance, existing |-> existing]]
    /\ UNCHANGED <<classes, students, attendance, now, last>>

\* Request p resumes after find_one: the store runs its update_one or its
\* insert_one and the handler returns.
MarkWrite(p) ==
    /\ tasks[p].pc = "found"
    /\ \E o \in (IF Truthy(tasks[p].existing)
                 THEN mark_update(attendance, tasks[p].existing, tasks[p].req, now, now)
                 ELSE mark_insert(attendance, tasks[p].req, uuid4(AttIds(attendance)),
                                  now, now)) :
          /\ Cardinality(o.att) <= MaxAtt
          /\ attendance' = o.att
          /\ tasks' = [tasks EXCEPT ![p] = [@ EXCEPT !.pc = "done"] @@ [code |-> 200, ret |-> o.ret]]
    /\ UNCHANGED <<classes, students, now, last>>

\* The response of request p reaches its client.
TaskReply(p) ==
    /\ tasks[p].pc = "done"
    /\ tasks' = [tasks EXCEPT ![p] = NoTask]
    /\ UNCHANGED <<classes, students, attendance, now, last>>

\* The marks that race: those of one student.
ConcInputs == {data \in MarkInputs : data.student_id = 1}

NextConc ==
    \E p \in Procs :
        \/ \E data \in ConcInputs : MarkFind(p, data)
        \/ MarkWrite(p)
        \/ TaskReply(p)

SpecConc == Init /\ [][NextConc]_vars

\* ------------------------------------------------------------------ reports
\* GET /reports/{class_id}?start_date=..&end_date=..
GetClassReport(class_id, start_date, end_date) ==
    /\ last = Idle
    /\ \E o \in get_class_report(classes, students, attendance,
                                 class_id, start_date, end_date) :
          last' = [op |-> "get_class_report",
                   req |-> [class_id |-> class_id, start_date |-> start_date,
                            end_date |-> end_date],
                   code |-> o.code, ret |-> o]
    /\ UNCHANGED <<classes, students, attendance, now, tasks>>

\* Documents as create_class, create_student and mark_attendance store them.
ClassDoc(id) == [id |-> id, name |-> "Physics", subject |-> "Science", created_at |-> 0]
StudentDoc(id, class_id) ==
    [id |-> id, name |-> "Student", roll_number |-> "R1", class_id |-> class_id]
AttendanceDoc(id, student_id, class_id, date, status) ==
    [id |-> id, student_id |-> student_id, class_id |-> class_id,
     date |-> isoformat(date), status |-> status, marked_at |-> 0]

\* Student 1 marked on n consecutive days in class 1: present on the first k,
\* then absent, late and a status the report does not know, in turn.
DayOf(i) == <<2024 + ((i - 1) \div 336), (((i - 1) \div 28) % 12) + 1, ((i - 1) % 28) + 1>>
RunStatus(i, k) ==
    IF i <= k THEN "present"
    ELSE IF (i - k) % 3 = 1 THEN "absent"
    ELSE IF (i - k) % 3 = 2 THEN "late"
    ELSE "excused"
Run(n, k) == {AttendanceDoc(i, 1, 1, DayOf(i), RunStatus(i, k)) : i \in 1..n}

\* Records of a small register: students 1, 2 and 4 are in class 1, student 3
\* is in class 2, and no class 2 was created.
RegisterPool ==
    {AttendanceDoc(1, 1, 1, <<2024, 1, 1>>, "present"),
     AttendanceDoc(2, 1, 1, <<2024, 1, 15>>, "absent"),
     AttendanceDoc(3, 1, 1, <<2024, 2, 1>>, "late"),
     AttendanceDoc(4, 2, 1, <<2024, 1, 15>>, "excused"),
     AttendanceDoc(5, 1, 2, <<2024, 1, 15>>, "present"),
     AttendanceDoc(6, 3, 1, <<2024, 1, 1>>, "present"),
     AttendanceDoc(7, 2, 1, <<2024, 2, 1>>, "present")}
RegisterStudents == {StudentDoc(1, 1), StudentDoc(2, 1), StudentDoc(3, 2), StudentDoc(4, 1)}

\* The lengths and present days of the generated runs: short ones, runs whose
\* percentage is halfway between two hundredths, one more than the fetch limit.
RunShapes ==
    {<<3, 1>>, <<3, 2>>, <<5, 3>>, <<32, 1>>, <<160, 23>>, <<160, 49>>,
     <<ToListLimit + 1, 400>>}

\* The databases the reports are computed from.
ReportData ==
    {[classes |-> {ClassDoc(1)}, students |-> RegisterStudents, attendance |-> a]
        : a \in SUBSET RegisterPool}
    \cup {[classes |-> {ClassDoc(1)}, students |-> {StudentDoc(1, 1), StudentDoc(2, 1)},
           attendance |-> Run(nk[1], nk[2])] : nk \in RunShapes}
    \cup {[classes |-> {ClassDoc(1)},
           students |-> {StudentDoc(i, 1) : i \in 1..(ToListLimit + 1)},
           attendance |-> Run(5, 3)]}

InitReport ==
    /\ \E ds \in ReportData :
          /\ classes = ds.classes
          /\ students = ds.students
          /\ attendance = ds.attendance
    /\ now = 0
    /\ last = Idle
    /\ tasks = NoTasks

\* The query strings of a report request: not supplied, empty, ISO dates, and
\* a date that is not zero-padded ("2024-1-20").
ReportStarts ==
    {NoArg, <<>>, isoformat(<<2024, 1, 1>>), isoformat(<<2024, 1, 15>>),
     <<50, 48, 50, 52, 45, 49, 45, 50, 48>>}
ReportEnds == {NoArg, <<>>, isoformat(<<2024, 1, 15>>), isoformat(<<2024, 1, 31>>)}
ReportClasses == {1, 2}

NextReport ==
    \/ Reply
    \/ \E class_id \in ReportClasses, start_date \in ReportStarts, end_date \in ReportEnds :
          GetClassReport(class_id, start_date, end_date)

SpecReport == InitReport /\ [][NextReport]_vars

\* ------------------------------------------------------ classes and students
Ids(coll) == {d.id : d \in coll}

\* POST /classes
CreateClass(name, subject) ==
    /\ last = Idle
    /\ Cardinality(classes) < MaxClasses
    /\ LET class_obj == [id |-> uuid4(Ids(classes)), name |-> name, subject |-> subject,
                         created_at |-> now]
       IN  /\ classes' = classes \cup {class_obj}
           /\ last' = [op |-> "create_class", req |-> [name |-> name, subject |-> subject],
                       code |-> 200, ret |-> class_obj]
    /\ UNCHANGED <<students, attendance, now, tasks>>

\* GET /classes
GetClasses ==
    /\ last = Idle
    /\ \E found \in to_list(classes, ToListLimit) :
          last' = [op |-> "get_classes", code |-> 200, ret |-> found]
    /\ UNCHANGED <<classes, students, attendance, now, tasks>>

\* GET /classes/{class_id}
get_class(clss, class_id) ==
    LET found == {c \in clss : c.id = class_id}
    IN  IF found = {} THEN {[code |-> 404, detail |-> "Class not found"]}
        ELSE {[code |-> 200, body |-> cls] : cls \in found}

GetClass(class_id) ==
    /\ last = Idle
    /\ \E o \in get_class(classes, class_id) :
          last' = [op |-> "get_class", req |-> [id |-> class_id], code |-> o.code, ret |-> o]
    /\ UNCHANGED <<classes, students, attendance, now, tasks>>

\* POST /students
CreateStudent(name, roll_number, class_id) ==
    /\ last = Idle
    /\ Cardinality(students) < MaxStudents
    /\ LET student_obj == [id |-> uuid4(Ids(students)), name |-> name,
                           roll_number |-> roll_number, class_id |-> class_id]
       IN  /\ students' = students \cup {student_obj}
           /\ last' = [op |-> "create_student",
                       req |-> [name |-> name, roll_number |-> roll_number,
                                class_id |-> class_id],
                       code |-> 200, ret |-> student_obj]
    /\ UNCHANGED <<classes, attendance, now, tasks>>

\* GET /students?class_id=..
get_students(studs, class_id) ==
    to_list(IF IdTruthy(class_id) THEN {s \in studs : s.class_id = class_id} ELSE studs,
            ToListLimit)

GetStudents(class_id) ==
    /\ last = Idle
    /\ \E found \in get_students(students, class_id) :
          last' = [op |-> "get_students", req |-> [class_id |-> class_id],
                   code |-> 200, ret |-> found]
    /\ UNCHANGED <<classes, students, attendance, now, tasks>>

\* GET /students/{student_id}
get_student(studs, student_id) ==
    LET found == {s \in studs : s.id = student_id}
    IN  IF found = {} THEN {[code |-> 404, detail |-> "Student not found"]}
        ELSE {[code |-> 200, body |-> student] : student \in found}

GetStudent(student_id) ==
    /\ last = Idle
    /\ \E o \in get_student(students, student_id) :
          last' = [op |-> "get_student", req |-> [id |-> student_id],
                   code |-> o.code, ret |-> o]
    /\ UNCHANGED <<classes, students, attendance, now, tasks>>

\* GET /attendance?class_id=..&date=..
get_attendance(att, class_id, date) ==
    to_list({r \in att : r.class_id = class_id /\ (StrTruthy(date) => r.date = date)},
            ToListLimit)

GetAttendance(class_id, date) ==
    /\ last = Idle
    /\ \E found \in get_attendance(attendance, class_id, date) :
          last' = [op |-> "get_attendance", req |-> [class_id |-> class_id, date |-> date],
                   code |-> 200, ret |-> found]
    /\ UNCHANGED <<classes, students, attendance, now, tasks>>

\* The ids requests name: those uuid4 can have drawn and one it never drew.
ClassRefs == 1..(MaxClasses + 1)
StudentRefs == 1..(MaxStudents + 1)

\* The marks of the service as a whole: student 1 marked present, student 2 in
\* one-pair bulk lists, in every class a request may name.
ServiceMarks ==
    {[student_id |-> 1, class_id |-> c, date |-> Date1, status |-> "present"] : c \in ClassRefs}
ServiceBulks ==
    {[class_id |-> c, date |-> Date1, attendance_records |-> l]
       : c \in ClassRefs,
         l \in {<<>>, <<[student_id |-> 2, status |-> "late"]>>, <<[student_id |-> 2]>>}}

\* Every endpoint, one request after another.
Next ==
    \/ Reply
    \/ CreateClass("Physics", "Science")
    \/ GetClasses
    \/ \E class_id \in ClassRefs : GetClass(class_id)
    \/ \E class_id \in ClassRefs : CreateStudent("Student", "R1", class_id)
    \/ \E class_id \in ClassRefs \cup {NoId, EmptyId} : GetStudents(class_id)
    \/ \E student_id \in StudentRefs : GetStudent(student_id)
    \/ \E data \in ServiceMarks : MarkAttendance(data, now, now)
    \/ \E bulk_data \in ServiceBulks : MarkBulkAttendance(bulk_data, now)
    \/ \E class_id \in ClassRefs, date \in {NoArg, <<>>, isoformat(Date1)} :
          GetAttendance(class_id, date)
    \/ \E class_id \in ClassRefs, start_date \in {NoArg, isoformat(Date2)} :
          GetClassReport(class_id, start_date, NoArg)

Spec == Init /\ [][Next]_vars

\* ------------------------------------------------------------------ the clock
\* utcnow() read twice by one mark, the clock moving in between.
ClockInputs == {data \in MarkInputs : data.student_id = 1}

NextClock ==
    \/ Reply
    \/ \E data \in ClockInputs, t1 \in now..MaxClock :
          \E t2 \in t1..MaxClock : MarkAttendance(data, t1, t2)

SpecClock == Init /\ [][NextClock]_vars

\* ------------------------------------------------------------------ claims
\* The documents of collection att stored for a (student_id, class_id, date).
ForTriple(att, student_id, class_id, date) ==
    {r \in att : r.student_id = student_id /\ r.class_id = class_id /\ r.date = date}

\* C1: after any sequence of individual and bulk marks run one after another,
\* the attendance collection holds at most one record for every
\* (student_id, class_id, date) triple.
C1_OneRecordPerTriple ==
    \A r \in attendance :
        Cardinality(ForTriple(attendance, r.student_id, r.class_id, r.date)) <= 1

\* A bulk mark that named the same student twice, with two statuses, has
\* completed.
C1_Witness ==
    /\ last.op = "mark_bulk_attendance" /\ last.code = 200
    /\ Len(last.req.attendance_records) = 2
    /\ last.req.attendance_records[1].student_id = last.req.attendance_records[2].student_id
    /\ last.req.attendance_records[1].status # last.req.attendance_records[2].status
    /\ Cardinality(attendance) = 2

\* C3: an individual mark for a triple that already has a stored record keeps
\* that record's id, student_id, class_id and date, sets its status to the
\* status of the call, and changes no other attendance record.
C3_RemarkUpdatesInPlace ==
    (last.op = "mark_attendance"
       /\ ForTriple(last.pre, last.req.student_id, last.req.class_id,
                    isoformat(last.req.date)) # {})
    => \A e \in ForTriple(last.pre, last.req.student_id, last.req.class_id,
                          isoformat(last.req.date)) :
          /\ \E r \in attendance :
                /\ r.id = e.id /\ r.student_id = e.student_id
                /\ r.class_id = e.class_id /\ r.date = e.date
                /\ r.status = last.req.status
                /\ attendance \ {r} = last.pre \ {e}
          /\ Cardinality(attendance) = Cardinality(last.pre)

\* A second mark with another status has been applied while another record
\* is stored.
C3_Witness ==
    /\ last.op = "mark_attendance"
    /\ Truthy(last.existing)
    /\ last.existing.status # last.req.status
    /\ Cardinality(attendance) = 2

\* The last index of the list at which student s is named.
LastPairOf(l, s) ==
    CHOOSE i \in 1..Len(l) :
        /\ l[i].student_id = s
        /\ \A j \in (i + 1)..Len(l) : l[j].student_id # s

\* C4: after a bulk mark for (class_id, date) completes, exactly one record
\* exists for (s, class_id, date) for every student s of the list, with the
\* status of the last pair for s; a list of N distinct students none of which
\* had a record for that class and date adds exactly N records.
C4_BulkMarksEveryStudent ==
    (last.op = "mark_bulk_attendance" /\ last.code = 200)
    => LET l == last.req.attendance_records
           d == isoformat(last.req.date)
           c == last.req.class_id
       IN  /\ \A i \in 1..Len(l) :
                 /\ Cardinality(ForTriple(attendance, l[i].student_id, c, d)) = 1
                 /\ \A r \in ForTriple(attendance, l[i].student_id, c, d) :
                        r.status = l[LastPairOf(l, l[i].student_id)].status
           /\ ((/\ \A i, j \in 1..Len(l) : l[i].student_id = l[j].student_id => i = j
                /\ \A i \in 1..Len(l) : ForTriple(last.pre, l[i].student_id, c, d) = {})
               => /\ last.pre \subseteq attendance
                  /\ Cardinality(attendance) = Cardinality(last.pre) + Len(l)
                  /\ \A r \in attendance \ last.pre :
                        /\ r.class_id = c /\ r.date = d
                        /\ \E i \in 1..Len(l) : l[i].student_id = r.student_id)

\* A bulk mark of two distinct students, neither with a record for that class
\* and date before, has completed.
C4_Witness ==
    /\ last.op = "mark_bulk_attendance" /\ last.code = 200
    /\ Len(last.req.attendance_records) = 2
    /\ last.req.attendance_records[1].student_id # last.req.attendance_records[2].student_id
    /\ last.pre = {}
    /\ Cardinality(attendance) = 2

\* Pair i of a bulk list lacks a key the loop reads.
Malformed(l, i) == "student_id" \notin DOMAIN l[i] \/ "status" \notin DOMAIN l[i]

\* What marking pairs i..n of the list one by one, as individual marks, can
\* leave in the collection.
RECURSIVE MarkEach(_, _, _, _, _)
MarkEach(att, bulk_data, i, n, t) ==
    IF i > n THEN {att}
    ELSE UNION {MarkEach(o.att, bulk_data, i + 1, n, t)
                  : o \in mark_attendance(att,
                            [student_id |-> bulk_data.attendance_records[i].student_id,
                             class_id |-> bulk_data.class_id,
                             date |-> bulk_data.date,
                             status |-> bulk_data.attendance_records[i].status], t, t)}

\* C5: when the k-th pair of a bulk mark fails, the request ends in an error
\* and the collection is what individually marking pairs 1..k-1 in list order
\* produces: the earlier marks are not rolled back.
C5_BulkKeepsEarlierMarks ==
    (last.op = "mark_bulk_attendance"
       /\ \E i \in 1..Len(last.req.attendance_records) :
             Malformed(last.req.attendance_records, i))
    => LET l == last.req.attendance_records
           k == CHOOSE i \in 1..Len(l) :
                    Malformed(l, i) /\ \A j \in 1..(i - 1) : ~Malformed(l, j)
       IN  /\ last.code = 500
           /\ attendance \in MarkEach(last.pre, last.req, 1, k - 1, now)
           /\ Len(last.records) = k - 1

\* A bulk mark whose second pair failed after its first pair inserted a record.
C5_Witness ==
    /\ last.op = "mark_bulk_attendance" /\ last.code = 500
    /\ Len(last.req.attendance_records) = 2
    /\ Len(last.records) = 1
    /\ attendance # last.pre

\* C2: two simultaneous marks for a triple that has no record yet do not
\* leave two records: once both requests have finished, at most one record
\* for the triple is stored.
C2_RaceLeavesOneRecord ==
    (/\ \A p \in Procs : tasks[p].pc = "done"
     /\ tasks[1].req.student_id = tasks[2].req.student_id
     /\ tasks[1].req.class_id = tasks[2].req.class_id
     /\ tasks[1].req.date = tasks[2].req.date
     /\ \E p \in Procs : ForTriple(tasks[p].pre, tasks[p].req.student_id,
                                   tasks[p].req.class_id, isoformat(tasks[p].req.date)) = {})
    => Cardinality(ForTriple(attendance, tasks[1].req.student_id, tasks[1].req.class_id,
                             isoformat(tasks[1].req.date))) <= 1

\* A report request has been answered with a report.
ReportOk == last.op = "get_class_report" /\ last.code = 200

\* The stored records of the report's class and the requested window, a bound
\* counting when it is supplied and not empty.
InWindow(date) ==
    /\ StrTruthy(last.req.start_date) => StrLeq(last.req.start_date, date)
    /\ StrTruthy(last.req.end_date) => StrLeq(date, last.req.end_date)
WindowRecords ==
    {r \in attendance : r.class_id = last.req.class_id /\ InWindow(r.date)}
Counted(student_id) == {r \in WindowRecords : r.student_id = student_id}
WithStatus(records, status) == {r \in records : r.status = status}

\* What C6 says of the entry of one student.
CountsAreExact(student_id) ==
    LET e == last.ret.student_statistics[student_id]
        c == Counted(student_id)
    IN  /\ e.total_days = Cardinality(c)
        /\ e.present = Cardinality(WithStatus(c, "present"))
        /\ e.absent = Cardinality(WithStatus(c, "absent"))
        /\ e.late = Cardinality(WithStatus(c, "late"))
        /\ e.present + e.absent + e.late <= e.total_days
        /\ (e.present + e.absent + e.late = e.total_days
              <=> \A r \in c : r.status \in {"present", "absent", "late"})

\* C6: in a report, every listed student's total_days, present,
\* absent and late are the numbers of stored records of that student and class
\* in the window (with that status), however many records the class has.
C6_CountsHoweverMany ==
    ReportOk => \A student_id \in DOMAIN last.ret.student_statistics :
                    CountsAreExact(student_id)

\* What the code does keep of it: the counts are exact when at most
\* ToListLimit stored records carry the class_id and lie in the window, and in
\* every report present + absent + late <= total_days.
CountsExactWithinLimit ==
    ReportOk =>
        /\ \A student_id \in DOMAIN last.ret.student_statistics :
              LET e == last.ret.student_statistics[student_id]
              IN  e.present + e.absent + e.late <= e.total_days
        /\ Cardinality(WindowRecords) <= ToListLimit
              => \A student_id \in DOMAIN last.ret.student_statistics :
                     CountsAreExact(student_id)

\* A report of a class with ToListLimit + 1 records of one student gives that
\* student total_days = ToListLimit.
C6_Witness ==
    /\ ReportOk
    /\ \E student_id \in DOMAIN last.ret.student_statistics :
          /\ Cardinality(Counted(student_id)) = ToListLimit + 1
          /\ last.ret.student_statistics[student_id].total_days = ToListLimit

\* The request named a class that is stored.
ClassExists == \E c \in classes : c.id = last.req.class_id
StudentsOfClass == {s \in students : s.class_id = last.req.class_id}

\* A listed student without a record in the window has an all-zero entry.
ZeroEntries ==
    \A student_id \in DOMAIN last.ret.student_statistics :
        Counted(student_id) = {}
            => LET e == last.ret.student_statistics[student_id]
               IN  /\ e.total_days = 0 /\ e.present = 0 /\ e.absent = 0 /\ e.late = 0
                   /\ e.attendance_percentage = 0

\* C7: the report of an existing class succeeds and has exactly one
\* entry for every stored student of the class and none for anyone else; a
\* student without a record in the window has an all-zero entry.
C7_EveryStudentListed ==
    (last.op = "get_class_report" /\ ClassExists)
    => /\ last.code = 200
       /\ DOMAIN last.ret.student_statistics = {s.id : s \in StudentsOfClass}
       /\ ZeroEntries

\* What the code does keep of it: the entries are students of the class, all
\* of them when the class has at most ToListLimit students and ToListLimit of
\* them otherwise.
StudentsListedWithinLimit ==
    (last.op = "get_class_report" /\ ClassExists)
    => /\ last.code = 200
       /\ DOMAIN last.ret.student_statistics \subseteq {s.id : s \in StudentsOfClass}
       /\ Cardinality(StudentsOfClass) <= ToListLimit
             => DOMAIN last.ret.student_statistics = {s.id : s \in StudentsOfClass}
       /\ Cardinality(StudentsOfClass) > ToListLimit
             => Cardinality(DOMAIN last.ret.student_statistics) = ToListLimit
       /\ ZeroEntries

\* A report of a class of ToListLimit + 1 students has ToListLimit entries.
C7_Witness ==
    /\ ReportOk
    /\ Cardinality(StudentsOfClass) = ToListLimit + 1
    /\ Cardinality(DOMAIN last.ret.student_statistics) = ToListLimit

\* C8: with total_days > 0, attendance_percentage is present / total_days * 100
\* rounded to two decimals (within half a hundredth of the quotient), between
\* 0 and 100; 3 present, 1 absent and 1 late give 60.00.
C8_PercentageRounded ==
    ReportOk =>
        \A student_id \in DOMAIN last.ret.student_statistics :
            LET e == last.ret.student_statistics[student_id]
                diff == e.attendance_percentage * e.total_days - e.present * 10000
            IN  e.total_days > 0
                  => /\ 2 * diff <= e.total_days
                     /\ -2 * diff <= e.total_days
                     /\ e.attendance_percentage >= 0
                     /\ e.attendance_percentage <= 10000
                     /\ (e.present = 3 /\ e.absent = 1 /\ e.late = 1 /\ e.total_days = 5)
                           => e.attendance_percentage = 6000

\* A report of a student with 3 present, 1 absent and 1 late record.
C8_Witness ==
    /\ ReportOk
    /\ \E student_id \in DOMAIN last.ret.student_statistics :
          LET e == last.ret.student_statistics[student_id]
          IN  /\ e.present = 3 /\ e.absent = 1 /\ e.late = 1 /\ e.total_days = 5
              /\ e.attendance_percentage = 6000

\* The class records of a student that a window with the given bounds covers,
\* every supplied bound counting.
CountedIfSupplied(student_id) ==
    {r \in attendance :
        /\ r.student_id = student_id
        /\ r.class_id = last.req.class_id
        /\ (last.req.start_date = NoArg \/ StrLeq(last.req.start_date, r.date))
        /\ (last.req.end_date = NoArg \/ StrLeq(r.date, last.req.end_date))}

\* The dates of the claim's example.
Jan01 == isoformat(<<2024, 1, 1>>)
Jan15 == isoformat(<<2024, 1, 15>>)
Jan31 == isoformat(<<2024, 1, 31>>)
Feb01 == isoformat(<<2024, 2, 1>>)

\* A student's records of the class are dated 2024-01-01, 2024-01-15 and
\* 2024-02-01 and the window is 2024-01-01 to 2024-01-31.
ExampleWindow(student_id) ==
    /\ last.req.start_date = Jan01
    /\ last.req.end_date = Jan31
    /\ {r.date : r \in {q \in attendance : q.student_id = student_id
                                            /\ q.class_id = last.req.class_id}}
          = {Jan01, Jan15, Feb01}
    /\ Cardinality({q \in attendance : q.student_id = student_id
                                        /\ q.class_id = last.req.class_id}) = 3

\* C9: the window is inclusive and each bound independently optional: a record of the class is counted iff (start_date is not given
\* or date >= start_date) and (end_date is not given or date <= end_date).
C9_WindowOfSuppliedBounds ==
    ReportOk => \A student_id \in DOMAIN last.ret.student_statistics :
                    last.ret.student_statistics[student_id].total_days
                        = Cardinality(CountedIfSupplied(student_id))

\* What the code does keep of it: with a bound counting only when it is
\* supplied and not the empty string, and at most ToListLimit records of the
\* class in the window, the window is inclusive at both ends; of records dated
\* 2024-01-01, 2024-01-15 and 2024-02-01 the window 2024-01-01 to 2024-01-31
\* counts the first two.
WindowInclusiveWithinLimit ==
    (ReportOk /\ Cardinality(WindowRecords) <= ToListLimit)
    => \A student_id \in DOMAIN last.ret.student_statistics :
          /\ last.ret.student_statistics[student_id].total_days
                = Cardinality(Counted(student_id))
          /\ ExampleWindow(student_id)
                => /\ last.ret.student_statistics[student_id].total_days = 2
                   /\ {r.date : r \in Counted(student_id)} = {Jan01, Jan15}

\* A report requested with end_date given as the empty string counts records
\* none of which is dated <= "".
C9_Witness ==
    /\ ReportOk
    /\ last.req.end_date = <<>>
    /\ \E student_id \in DOMAIN last.ret.student_statistics :
          /\ last.ret.student_statistics[student_id].total_days = 3
          /\ CountedIfSupplied(student_id) = {}

\* The three collections.
Stored == <<classes, students, attendance>>

\* C10: get_class and get_student for an id no class (student) was created
\* with, and get_class_report for a class_id no stored class has, answer 404
\* and leave classes, students and attendance as they were, the report also
\* when students or attendance records carry that class_id.
C10_MissingIsNotFound ==
    [][/\ (last'.op = "get_class" /\ last'.req.id \notin Ids(classes))
            => (last'.code = 404 /\ Stored' = Stored)
       /\ (last'.op = "get_student" /\ last'.req.id \notin Ids(students))
            => (last'.code = 404 /\ Stored' = Stored)
       /\ (last'.op = "get_class_report" /\ last'.req.class_id \notin Ids(classes))
            => (last'.code = 404 /\ Stored' = Stored)]_vars

\* A report was asked for a class that was never created while a student and
\* an attendance record carry its class_id, and was answered 404.
C10_Witness ==
    /\ last.op = "get_class_report" /\ last.code = 404
    /\ last.req.class_id \notin Ids(classes)
    /\ \E s \in students : s.class_id = last.req.class_id
    /\ \E r \in attendance : r.class_id = last.req.class_id

\* A request to list students has been answered.
StudentsListed == last.op = "get_students"

\* C11: listing students with a class_id filter returns only students whose
\* class_id equals the filter, for every string supplied as the filter, the
\* empty string included.
C11_FilterMatchesExactly ==
    (StudentsListed /\ last.req.class_id # NoId)
    => \A s \in last.ret : s.class_id = last.req.class_id

\* The list asked for with class_id given as the empty string holds a student
\* of class 1.
C11_Witness ==
    /\ StudentsListed
    /\ last.req.class_id = EmptyId
    /\ \E s \in last.ret : s.class_id = 1

\* What the code does keep of it: a filter that is a non-empty string returns
\* exactly the stored students of that class (up to ToListLimit of them), and
\* a filter that is absent or empty returns the students of every class.
StudentsFilteredWhenNonEmpty ==
    StudentsListed =>
        /\ last.ret \subseteq students
        /\ IdTruthy(last.req.class_id)
              => /\ \A s \in last.ret : s.class_id = last.req.class_id
                 /\ Cardinality(students) <= ToListLimit
                       => last.ret = {s \in students : s.class_id = last.req.class_id}
        /\ (~IdTruthy(last.req.class_id) /\ Cardinality(students) <= ToListLimit)
              => last.ret = students

\* No two documents of the collection have the same id.
UniqueIds(coll) == \A d1, d2 \in coll : d1.id = d2.id => d1 = d2

\* C12: no two creations of a class (of a student) return the same id, and a
\* record that create_class or create_student has returned is what every later
\* get by its id returns, whatever was done in between.  Step by step: a
\* creation returns a record with an id no stored record has and stores that
\* record; no step changes or removes a stored class or student; ids stay
\* unique; a get by the id of a stored record answers 200 with that record.
C12_IdsUniqueAndStable ==
    [][/\ last'.op = "create_class"
            => (last'.ret.id \notin Ids(classes) /\ classes' = classes \cup {last'.ret})
       /\ last'.op = "create_student"
            => (last'.ret.id \notin Ids(students) /\ students' = students \cup {last'.ret})
       /\ classes \subseteq classes' /\ students \subseteq students'
       /\ UniqueIds(classes') /\ UniqueIds(students')
       /\ (last'.op = "get_class" /\ last'.req.id \in Ids(classes))
            => /\ last'.code = 200
               /\ last'.ret.body \in classes
               /\ last'.ret.body.id = last'.req.id
       /\ (last'.op = "get_student" /\ last'.req.id \in Ids(students))
            => /\ last'.code = 200
               /\ last'.ret.body \in students
               /\ last'.ret.body.id = last'.req.id]_vars

\* The class created first is fetched after a second class, two students and
\* an attendance record were stored.
C12_Witness ==
    /\ last.op = "get_class" /\ last.code = 200
    /\ last.ret.body.id = 1
    /\ Cardinality(classes) = 2
    /\ Cardinality(students) = 2
    /\ attendance # {}

\* Two requests name the same (student_id, class_id, date).
SameTriple(a, b) ==
    a.student_id = b.student_id /\ a.class_id = b.class_id /\ a.date = b.date

\* The documents of att stored for the triple of request req.
OfRequest(att, req) == ForTriple(att, req.student_id, req.class_id, isoformat(req.date))

\* Requests p and q are in flight for one triple, and one record for it was
\* stored when each of them ran its find_one.
RacingOnStoredRecord(p, q) ==
    /\ p # q
    /\ tasks[p].pc \in {"found", "done"}
    /\ tasks[q].pc \in {"found", "done"}
    /\ SameTriple(tasks[p].req, tasks[q].req)
    /\ Cardinality(OfRequest(tasks[p].pre, tasks[p].req)) = 1
    /\ Cardinality(OfRequest(tasks[q].pre, tasks[q].req)) = 1

\* C13: with a record of the triple stored before two concurrent marks of it
\* start, every write step of either request answers 200 and leaves exactly
\* one record for the triple, with the id it had and the status of the request
\* that has just written: under every interleaving the later write wins.
C13_LaterUpdateWins ==
    [][\A p, q \in Procs :
          (RacingOnStoredRecord(p, q) /\ tasks[p].pc = "found" /\ tasks'[p].pc = "done")
          => /\ tasks'[p].code = 200
             /\ \E r \in attendance' :
                   /\ OfRequest(attendance', tasks[p].req) = {r}
                   /\ r.id = tasks[p].existing.id
                   /\ r.status = tasks[p].req.status]_vars

\* Both requests found the stored record and wrote different statuses; the
\* record has the status of request 2 and is the only one of its triple.
C13_Witness ==
    /\ RacingOnStoredRecord(1, 2)
    /\ tasks[1].pc = "done" /\ tasks[2].pc = "done"
    /\ tasks[1].req.status # tasks[2].req.status
    /\ \E r \in attendance :
          /\ OfRequest(attendance, tasks[1].req) = {r}
          /\ r.id = tasks[1].existing.id
          /\ r.status = tasks[2].req.status

\* An individual mark has been answered.
Marked == last.op = "mark_attendance"

\* C14: the record an individual mark returns is the record as stored: its id,
\* student_id, class_id, date, status and marked_at are those of the stored
\* record of the triple, on the insert and on the update path, also when the
\* clock advances between the steps of the request.
C14_ReturnedIsStored ==
    Marked => last.ret \in OfRequest(attendance, last.req)

\* A mark inserted a record while the clock advanced: the returned record and
\* the stored one differ in marked_at only.
C14_Witness ==
    /\ Marked
    /\ ~Truthy(last.existing)
    /\ \E r \in OfRequest(attendance, last.req) :
          /\ r.marked_at # last.ret.marked_at
          /\ [r EXCEPT !.marked_at = last.ret.marked_at] = last.ret

\* What the code does keep of it: the returned record is the stored one up to
\* marked_at, which is the earlier clock reading in the response and the later
\* one in the store when a record is inserted, and the other way round when
\* one is updated.
ReturnedIsStoredButMarkedAt ==
    Marked =>
        \E r \in OfRequest(attendance, last.req) :
            /\ [r EXCEPT !.marked_at = last.ret.marked_at] = last.ret
            /\ IF Truthy(last.existing)
               THEN r.marked_at <= last.ret.marked_at
               ELSE last.ret.marked_at <= r.marked_at

\* The operations that list, get or report.
ReadOps ==
    {"get_classes", "get_class", "get_students", "get_student", "get_attendance",
     "get_class_report"}

\* C15: classes changes only by create_class, students only by
\* create_student, attendance only by individual and bulk marks; the list,
\* get, attendance-listing and report operations, answered 200 or 404, leave
\* the three collections unchanged; no document is ever deleted and no
\* collection ever shrinks.
C15_SingleWriterNoDelete ==
    [][/\ classes' # classes => last'.op = "create_class"
       /\ students' # students => last'.op = "create_student"
       /\ attendance' # attendance
            => last'.op \in {"mark_attendance", "mark_bulk_attendance"}
       /\ last'.op \in ReadOps => Stored' = Stored
       /\ Ids(classes) \subseteq Ids(classes')
       /\ Ids(students) \subseteq Ids(students')
       /\ Ids(attendance) \subseteq Ids(attendance')
       /\ Cardinality(classes') >= Cardinality(classes)
       /\ Cardinality(students') >= Cardinality(students)
       /\ Cardinality(attendance') >= Cardinality(attendance)]_vars

\* A get of a student that was never created was answered 404 while all three
\* collections hold documents.
C15_Witness ==
    /\ last.op = "get_student" /\ last.code = 404
    /\ classes # {} /\ students # {} /\ attendance # {}

====
